---- MODULE Spec2Model ----
(***************************************************************************)
(* A model of the experiment wrappers of pyweka (weka/experiments.py):     *)
(* SimpleExperiment and its two subclasses (constructor, setup, run) and   *)
(* the Tester column resolution and queries; and of the command-line entry *)
(* point of weka/clusterers.py (main).  The Java side is modelled as the   *)
(* record the wrapper's bridge calls write to; every bridge call may       *)
(* raise, which is an input of the operation that issues it.               *)
(***************************************************************************)
EXTENDS Integers, Sequences, FiniteSets, TLC

VARIABLES
  exp,      \* the wrapper object (self), or NoExperiment before/without construction
  fx,       \* the foreign weka.experiment.Experiment self.jobject refers to
  nobj,     \* foreign Experiment objects created by the wrapper so far
  calls,    \* bridge calls issued by the last operation, in order
  last,     \* the last operation and the exception it raised ("none": it returned)
  tester,   \* the Tester wrapper's own fields
  tdata,    \* the Instances attached to the foreign tester (its attribute names)
  tfx,      \* the foreign tester's column settings
  tcalls,   \* bridge calls issued by the last Tester operation
  tlast,    \* the last Tester operation and the exception it raised
  main,     \* clusterers.main: its position and its local variables
  jvm,      \* the JVM's lifecycle as jvm.start and jvm.stop drive it
  mcalls    \* the foreign operations main issued so far, in order

evars == <<exp, fx, nobj, calls, last>>
tvars == <<tester, tdata, tfx, tcalls, tlast>>
mvars == <<main, jvm, mcalls>>
vars == <<exp, fx, nobj, calls, last, tester, tdata, tfx, tcalls, tlast, main, jvm, mcalls>>

---------------------------------------------------------------------------
(* Bounds of the model. *)
MaxRuns == 2
MaxFolds == 3

---------------------------------------------------------------------------
(* Python values. *)

\* None, and a reference to a foreign object.
None == [ref |-> "None"]
Handle(n) == [ref |-> "weka.experiment.Experiment", id |-> n]
AdoptedHandle == Handle(0)

\* A str is a sequence of characters; an optional str carries a None flag.
NoneStr == [isNone |-> TRUE, chars |-> <<>>]
Str(s) == [isNone |-> FALSE, chars |-> s]

UpperCase == <<"A","B","C","D","E","F","G","H","I","J","K","L","M",
               "N","O","P","Q","R","S","T","U","V","W","X","Y","Z">>
LowerCase == <<"a","b","c","d","e","f","g","h","i","j","k","l","m",
               "n","o","p","q","r","s","t","u","v","w","x","y","z">>

\* str.lower(), one character.
lower_char(c) ==
  IF \E i \in 1..Len(UpperCase) : UpperCase[i] = c
  THEN LowerCase[CHOOSE i \in 1..Len(UpperCase) : UpperCase[i] = c]
  ELSE c

\* str.lower()
lower(s) == [i \in 1..Len(s) |-> lower_char(s[i])]

\* str.endswith(suffix)
endswith(s, suffix) ==
  /\ Len(s) >= Len(suffix)
  /\ SubSeq(s, Len(s) - Len(suffix) + 1, Len(s)) = suffix

\* str(x) of an optional str: str(None) is "None".
str(x) == IF x.isNone THEN <<"N","o","n","e">> ELSE x.chars

DotArff == <<".","a","r","f","f">>
DotCsv == <<".","c","s","v">>

---------------------------------------------------------------------------
(* Inputs. *)

ResultValues ==
  { NoneStr,
    Str(<<"o","u","t",".","a","r","f","f">>),
    Str(<<"o","u","t",".","c","s","v">>),
    Str(<<"o","u","t",".","t","x","t">>),
    Str(<<"O","U","T",".","A","R","F","F">>),
    Str(<<"a","r","f","f">>) }

RunsValues == 0..MaxRuns
FoldsValues == 1..MaxFolds
\* percentage is a float in the source; only its order against 0 and 100 is used.
PercentageValues == {-5, 0, 66, 100, 150}

DatasetValues == { <<>>, <<"a.arff">>, <<"b.arff", "a.arff">> }

\* A classifiers entry is a configured Classifier object or a command-line string.
ClassifierObject(h) == [type |-> "Classifier", value |-> h]
ClassifierString(s) == [type |-> "str", value |-> s]
ClassifierValues ==
  { <<>>,
    << ClassifierString("weka.classifiers.trees.J48 -C 0.25") >>,
    << ClassifierObject("jobject:SMO"), ClassifierString("weka.classifiers.rules.ZeroR") >> }

---------------------------------------------------------------------------
(* Exceptions. *)
NoError == "none"
BridgeError == "foreign call raised"
TypeError == "TypeError: cannot concatenate 'str' and 'NoneType' objects"
ErrRuns == "Number of runs must be at least 1!"
ErrFolds == "Number of folds must be at least 2!"
ErrPercentLow == "Percentage for training must be >0!"
ErrPercentHigh == "Percentage for training must be <100!"
ErrNoDatasets == "No datasets provided!"
ErrNoClassifiers == "No classifiers provided!"
ErrNoResult == "No filename for results provided!"
ErrNotImplemented == "Not implemented!"
ErrUnhandledFormat == "Unhandled output format for results: "

---------------------------------------------------------------------------
(* The foreign side. *)

\* A field of a foreign object the wrapper has not set.
Default == [class |-> "default"]

\* A field of a foreign object a setter was called on with value v.
Set(v) == [class |-> "set", value |-> v]

\* A weka.experiment.Experiment as javabridge.make_instance returns it.
NewForeignExperiment ==
  [ exists |-> TRUE,
    propertyArray |-> Default,
    usePropertyIterator |-> Default,
    runLower |-> Default,
    runUpper |-> Default,
    resultProducer |-> Default,
    propertyPath |-> Default,
    datasets |-> Default,
    resultListener |-> Default,
    phase |-> "Configured" ]

\* No foreign experiment: self.jobject is None.
NoForeignExperiment == [NewForeignExperiment EXCEPT !.exists = FALSE, !.phase = "Unconfigured"]

\* One javabridge call: the object it is made on and the method.
Call(target, method) == [target |-> target, method |-> method]

---------------------------------------------------------------------------
(* Constructors. *)

NoExperiment == [kind |-> "none", jobject |-> None]

\* SimpleExperiment.__init__: stores its arguments, validates nothing.
SimpleExperiment_init(datasets, classifiers, jobject, classification, runs, result) ==
  [ kind |-> "SimpleExperiment",
    classification |-> classification,
    runs |-> runs,
    datasets |-> datasets,
    classifiers |-> classifiers,
    result |-> result,
    jobject |-> jobject ]

\* CrossValidation_check with the folds check off by one (folds < 1).
CrossValidation_check_folds1(datasets, classifiers, runs, folds, result) ==
  IF runs < 1 THEN ErrRuns
  ELSE IF folds < 1 THEN ErrFolds
  ELSE IF Len(datasets) = 0 THEN ErrNoDatasets
  ELSE IF Len(classifiers) = 0 THEN ErrNoClassifiers
  ELSE IF result.isNone THEN ErrNoResult
  ELSE NoError

\* The checks of SimpleCrossValidationExperiment.__init__, in order: the exception
\* raised, or NoError.
CrossValidation_check(datasets, classifiers, runs, folds, result) ==
  IF runs < 1 THEN ErrRuns
  ELSE IF folds < 2 THEN ErrFolds
  ELSE IF Len(datasets) = 0 THEN ErrNoDatasets
  ELSE IF Len(classifiers) = 0 THEN ErrNoClassifiers
  ELSE IF result.isNone THEN ErrNoResult
  ELSE NoError

\* The checks of SimpleRandomSplitExperiment.__init__, in order.
RandomSplit_check(datasets, classifiers, runs, percentage, result) ==
  IF runs < 1 THEN ErrRuns
  ELSE IF percentage <= 0 THEN ErrPercentLow
  ELSE IF percentage >= 100 THEN ErrPercentHigh
  ELSE IF Len(datasets) = 0 THEN ErrNoDatasets
  ELSE IF Len(classifiers) = 0 THEN ErrNoClassifiers
  ELSE IF result.isNone THEN ErrNoResult
  ELSE NoError

\* SimpleCrossValidationExperiment.__init__ past its checks.
CrossValidation_init(datasets, classifiers, classification, runs, folds, result) ==
  [ kind |-> "SimpleCrossValidationExperiment",
    folds |-> folds ]
  @@ SimpleExperiment_init(datasets, classifiers, None, classification, runs, result)

\* SimpleRandomSplitExperiment.__init__ past its checks.
RandomSplit_init(datasets, classifiers, classification, runs, percentage, preserve_order, result) ==
  [ kind |-> "SimpleRandomSplitExperiment",
    percentage |-> percentage,
    preserve_order |-> preserve_order ]
  @@ SimpleExperiment_init(datasets, classifiers, None, classification, runs, result)

---------------------------------------------------------------------------
(* setup() and run().  An operation is run on a frame: the handle, the foreign
   experiment, the calls issued so far and the exception raised so far ("none"
   while the operation is still executing).  fail is the position of the bridge
   call that raises (0: none does). *)

Frame(e, f, n) == [jobject |-> e.jobject, fx |-> f, nobj |-> n, calls |-> <<>>, err |-> NoError]

\* F applied to the value of x, with x evaluated once.
With(x, F(_)) == CHOOSE r \in { F(v) : v \in {x} } : TRUE

\* Raise for a setup() that binds self.jobject only once it is through: the
\* handle is lost when it raises.
Raise_unbinding(m, err) ==
  With(m, LAMBDA v : IF v.err # NoError THEN v ELSE [v EXCEPT !.err = err, !.jobject = None])

\* A statement raising a Python exception.
Raise(m, err) == With(m, LAMBDA v : IF v.err # NoError THEN v ELSE [v EXCEPT !.err = err])

\* javabridge.call(self.jobject, method, ...): the k-th bridge call of the
\* operation; it raises when it is the failing one or when there is no object to
\* call, and otherwise sets the field of the foreign experiment to the value.
BridgeCallOn(m, k, fail, method, field, value) ==
  IF m.err # NoError THEN m
  ELSE IF fail = k \/ m.jobject = None
       THEN [m EXCEPT !.calls = Append(@, Call(m.jobject, method)), !.err = BridgeError]
       ELSE [m EXCEPT !.calls = Append(@, Call(m.jobject, method)), !.fx[field] = value]

BridgeCall(m, k, fail, method, field, value) ==
  With(m, LAMBDA v : BridgeCallOn(v, k, fail, method, field, value))

\* A bridge call that creates or fills objects other than the experiment
\* (make_instance, make_object_array, set_object_array_element, addElement).
BridgeMakeOn(m, k, fail, what) ==
  IF m.err # NoError THEN m
  ELSE IF fail = k
       THEN [m EXCEPT !.calls = Append(@, Call(None, what)), !.err = BridgeError]
       ELSE [m EXCEPT !.calls = Append(@, Call(None, what))]

BridgeMake(m, k, fail, what) == With(m, LAMBDA v : BridgeMakeOn(v, k, fail, what))

\* self.jobject = javabridge.make_instance("weka/experiment/Experiment", "()V")
MakeExperimentOn(m, k, fail) ==
  IF m.err # NoError THEN m
  ELSE IF fail = k
       THEN [m EXCEPT !.calls = Append(@, Call(None, "new Experiment")), !.err = BridgeError]
       ELSE [m EXCEPT !.calls = Append(@, Call(None, "new Experiment")),
                      !.jobject = Handle(m.nobj + 1),
                      !.nobj = m.nobj + 1,
                      !.fx = NewForeignExperiment]

MakeExperiment(m, k, fail) == With(m, LAMBDA v : MakeExperimentOn(v, k, fail))

\* SimpleExperiment.configure_splitevaluator
configure_splitevaluator(e) ==
  IF e.classification
  THEN [class |-> "weka.experiment.ClassifierSplitEvaluator"]
  ELSE [class |-> "weka.experiment.RegressionSplitEvaluator"]

\* The two-element property path both subclasses build.
PropertyPath(producerClass, speval) ==
  << [class |-> "weka.experiment.PropertyNode", value |-> speval.class,
      property |-> "splitEvaluator", parentClass |-> producerClass],
     [class |-> "weka.experiment.PropertyNode", value |-> "class " \o speval.class,
      property |-> "classifier", parentClass |-> speval.class] >>

\* configure_resultproducer whose base-class version returns an empty pair
\* instead of raising.
configure_resultproducer_noraise(e) ==
  IF e.kind = "SimpleCrossValidationExperiment"
  THEN [ err |-> NoError,
         rproducer |-> [class |-> "weka.experiment.CrossValidationResultProducer",
                        numFolds |-> e.folds,
                        splitEvaluator |-> configure_splitevaluator(e)],
         prop_path |-> PropertyPath("weka.experiment.CrossValidationResultProducer",
                                    configure_splitevaluator(e)) ]
  ELSE IF e.kind = "SimpleRandomSplitExperiment"
  THEN [ err |-> NoError,
         rproducer |-> [class |-> "weka.experiment.RandomSplitResultProducer",
                        randomizeData |-> ~e.preserve_order,
                        trainPercent |-> e.percentage,
                        splitEvaluator |-> configure_splitevaluator(e)],
         prop_path |-> PropertyPath("weka.experiment.RandomSplitResultProducer",
                                    configure_splitevaluator(e)) ]
  ELSE [ err |-> NoError, rproducer |-> Default, prop_path |-> Default ]

\* configure_resultproducer of the class of e: the exception it raises, and the
\* (producer, property path) pair it returns otherwise.
configure_resultproducer(e) ==
  IF e.kind = "SimpleCrossValidationExperiment"
  THEN [ err |-> NoError,
         rproducer |-> [class |-> "weka.experiment.CrossValidationResultProducer",
                        numFolds |-> e.folds,
                        splitEvaluator |-> configure_splitevaluator(e)],
         prop_path |-> PropertyPath("weka.experiment.CrossValidationResultProducer",
                                    configure_splitevaluator(e)) ]
  ELSE IF e.kind = "SimpleRandomSplitExperiment"
  THEN [ err |-> NoError,
         rproducer |-> [class |-> "weka.experiment.RandomSplitResultProducer",
                        randomizeData |-> ~e.preserve_order,
                        trainPercent |-> e.percentage,
                        splitEvaluator |-> configure_splitevaluator(e)],
         prop_path |-> PropertyPath("weka.experiment.RandomSplitResultProducer",
                                    configure_splitevaluator(e)) ]
  ELSE [ err |-> ErrNotImplemented, rproducer |-> Default, prop_path |-> Default ]

\* rproducer, prop_path = self.configure_resultproducer(): the base class raises
\* without a bridge call; a subclass builds its objects over the bridge.
CallConfigureResultProducer(m, k, fail, e) ==
  IF configure_resultproducer(e).err # NoError
  THEN Raise(m, configure_resultproducer(e).err)
  ELSE BridgeMake(m, k, fail, "configure_resultproducer")

\* utils.from_commandline(classifier).jobject: the object the string describes.
from_commandline(s) == [class |-> "from_commandline", cmdline |-> s]

\* An element of a new object array.
NullObject == [class |-> "null", cmdline |-> ""]

\* The element setup() stores for one entry of self.classifiers: the handle of
\* a Classifier object, the object parsed from anything else.
ClassifierElement(classifier) ==
  IF classifier.type = "Classifier"
  THEN [class |-> "jobject", cmdline |-> classifier.value]
  ELSE from_commandline(classifier.value)

RECURSIVE FillClassifiers(_, _, _)
\* for i, classifier in enumerate(self.classifiers): set_object_array_element(...)
FillClassifiers(array, classifiers, i) ==
  IF i > Len(classifiers) THEN array
  ELSE FillClassifiers([array EXCEPT ![i] = ClassifierElement(classifiers[i])], classifiers, i + 1)

\* ClassifierArray with the type test left out: every entry is parsed.
ClassifierArray_parsed(e) ==
  [ i \in 1..Len(e.classifiers) |-> from_commandline(e.classifiers[i].value) ]

\* The Classifier[] setup() makes with len(self.classifiers) elements and fills.
ClassifierArray(e) ==
  FillClassifiers([i \in 1..Len(e.classifiers) |-> NullObject], e.classifiers, 1)

\* java.io.File(path)
File(path) == [class |-> "java.io.File", path |-> path]

RECURSIVE AddDatasets(_, _, _)
\* for dataset in self.datasets: datasets.addElement(File(dataset))
AddDatasets(list, datasets, i) ==
  IF i > Len(datasets) THEN list
  ELSE AddDatasets(Append(list, File(datasets[i])), datasets, i + 1)

\* The DefaultListModel of java.io.File setup() fills from self.datasets.
DatasetList(e) == AddDatasets(<<>>, e.datasets, 1)

\* ResultListenerFor with the final else branch falling back to CSV.
ResultListenerFor_fallback(result) ==
  IF endswith(lower(str(result)), DotArff)
  THEN [err |-> NoError, class |-> "weka.experiment.InstancesResultListener"]
  ELSE [err |-> NoError, class |-> "weka.experiment.CSVResultListener"]

\* The listener class the result file's extension selects, or the exception.
ResultListenerFor(result) ==
  IF endswith(lower(str(result)), DotArff)
  THEN [err |-> NoError, class |-> "weka.experiment.InstancesResultListener"]
  ELSE IF endswith(lower(str(result)), DotCsv)
  THEN [err |-> NoError, class |-> "weka.experiment.CSVResultListener"]
  ELSE [err |-> IF result.isNone THEN TypeError ELSE ErrUnhandledFormat,
        class |-> "none"]

\* rlistener = javabridge.make_instance(...) of the selected class, or the raise.
MakeListener(m, k, fail, e) ==
  IF ResultListenerFor(e.result).err # NoError
  THEN Raise(m, ResultListenerFor(e.result).err)
  ELSE BridgeMake(m, k, fail, "new " \o ResultListenerFor(e.result).class)

\* The listener setup() attaches: the selected class with its output file set.
Listener(e) == [class |-> ResultListenerFor(e.result).class, outputFile |-> e.result]

\* SimpleExperiment.setup, past its guard.
SetupBody(e, f, n, fail) ==
  LET m0  == Frame(e, f, n)
      m1  == MakeExperiment(m0, 1, fail)
      m2  == BridgeCall(m1, 2, fail, "setPropertyArray", "propertyArray", Set(<<>>))
      m3  == BridgeCall(m2, 3, fail, "setUsePropertyIterator", "usePropertyIterator", Set(TRUE))
      m4  == BridgeCall(m3, 4, fail, "setRunLower", "runLower", Set(1))
      m5  == BridgeCall(m4, 5, fail, "setRunUpper", "runUpper", Set(e.runs))
      m6  == CallConfigureResultProducer(m5, 6, fail, e)
      m7  == BridgeCall(m6, 7, fail, "setResultProducer", "resultProducer", configure_resultproducer(e).rproducer)
      m8  == BridgeCall(m7, 8, fail, "setPropertyPath", "propertyPath", Set(configure_resultproducer(e).prop_path))
      m9  == BridgeMake(m8, 9, fail, "new Classifier[]")
      m10 == BridgeCall(m9, 10, fail, "setPropertyArray", "propertyArray", Set(ClassifierArray(e)))
      m11 == BridgeMake(m10, 11, fail, "new DefaultListModel")
      m12 == BridgeCall(m11, 12, fail, "setDatasets", "datasets", Set(DatasetList(e)))
      m13 == MakeListener(m12, 13, fail, e)
      m14 == BridgeMake(m13, 14, fail, "new File")
      m15 == BridgeMake(m14, 15, fail, "setOutputFile")
      m16 == BridgeCall(m15, 16, fail, "setResultListener", "resultListener", Listener(e))
  IN m16

\* setup() without its guard on self.jobject.
Setup_noguard(e, f, n, fail) == SetupBody(e, f, n, fail)

\* SimpleExperiment.setup
Setup(e, f, n, fail) ==
  IF e.jobject # None THEN Frame(e, f, n) ELSE SetupBody(e, f, n, fail)

\* The number of bridge-call positions of setup().
SetupCalls == 16

\* run() going on to the next phase after a phase raised.
Run_goeson(e, f, n, fail) ==
  LET m0 == Frame(e, f, n)
      m1 == BridgeCall(m0, 1, fail, "initialize", "phase", "Initialized")
      m2 == BridgeCall([m1 EXCEPT !.err = NoError], 2, fail, "runExperiment", "phase", "Ran")
      m3 == BridgeCall([m2 EXCEPT !.err = NoError], 3, fail, "postProcess", "phase", "PostProcessed")
  IN [m3 EXCEPT !.err = IF m1.err # NoError THEN m1.err ELSE IF m2.err # NoError THEN m2.err ELSE m3.err]

\* run() without its postProcess call.
Run_nopost(e, f, n, fail) ==
  LET m0 == Frame(e, f, n)
      m1 == BridgeCall(m0, 1, fail, "initialize", "phase", "Initialized")
      m2 == BridgeCall(m1, 2, fail, "runExperiment", "phase", "Ran")
  IN m2

\* SimpleExperiment.run
Run(e, f, n, fail) ==
  LET m0 == Frame(e, f, n)
      m1 == BridgeCall(m0, 1, fail, "initialize", "phase", "Initialized")
      m2 == BridgeCall(m1, 2, fail, "runExperiment", "phase", "Ran")
      m3 == BridgeCall(m2, 3, fail, "postProcess", "phase", "PostProcessed")
  IN m3

\* The number of bridge calls of run().
RunCalls == 3

---------------------------------------------------------------------------
(* The experiment's operations as actions. *)

EInit ==
  /\ exp = NoExperiment
  /\ fx = NoForeignExperiment
  /\ nobj = 0
  /\ calls = <<>>
  /\ last = [op |-> "start", raised |-> NoError, before |-> None, args |-> <<>>]

\* A constructor that raised: no object, nothing else touched.
ConstructorRaised(op, err, args) ==
  /\ exp' = NoExperiment
  /\ last' = [op |-> op, raised |-> err, before |-> None, args |-> args]
  /\ UNCHANGED <<fx, nobj>>
  /\ calls' = <<>>
  /\ UNCHANGED <<tvars, mvars>>

\* A constructor that returned e.
ConstructorReturned(op, e, f, args) ==
  /\ exp' = e
  /\ fx' = f
  /\ last' = [op |-> op, raised |-> NoError, before |-> None, args |-> args]
  /\ UNCHANGED nobj
  /\ calls' = <<>>
  /\ UNCHANGED <<tvars, mvars>>

\* SimpleExperiment(datasets, classifiers, jobject, classification, runs, result)
NewSimpleExperiment ==
  /\ last.op = "start"
  /\ \E ds \in DatasetValues, cs \in ClassifierValues, j \in {None, AdoptedHandle},
        c \in BOOLEAN, r \in RunsValues, res \in ResultValues :
       ConstructorReturned("SimpleExperiment",
                           SimpleExperiment_init(ds, cs, j, c, r, res),
                           IF j = None THEN NoForeignExperiment ELSE NewForeignExperiment,
                           [runs |-> r, datasets |-> ds, classifiers |-> cs, result |-> res])

\* SimpleCrossValidationExperiment(datasets, classifiers, classification, runs, folds, result)
CrossValidationConstructor(ds, cs, c, r, f, res) ==
  IF CrossValidation_check(ds, cs, r, f, res) # NoError
  THEN ConstructorRaised("SimpleCrossValidationExperiment",
                         CrossValidation_check(ds, cs, r, f, res),
                         [runs |-> r, folds |-> f, datasets |-> ds, classifiers |-> cs, result |-> res])
  ELSE ConstructorReturned("SimpleCrossValidationExperiment",
                           CrossValidation_init(ds, cs, c, r, f, res),
                           NoForeignExperiment,
                           [runs |-> r, folds |-> f, datasets |-> ds, classifiers |-> cs, result |-> res])

NewCrossValidationExperiment ==
  /\ last.op = "start"
  /\ \E ds \in DatasetValues, cs \in ClassifierValues, c \in BOOLEAN,
        r \in RunsValues, f \in FoldsValues, res \in ResultValues :
       CrossValidationConstructor(ds, cs, c, r, f, res)

\* SimpleRandomSplitExperiment(datasets, classifiers, classification, runs, percentage,
\* preserve_order, result)
RandomSplitConstructor(ds, cs, c, r, pct, po, res) ==
  IF RandomSplit_check(ds, cs, r, pct, res) # NoError
  THEN ConstructorRaised("SimpleRandomSplitExperiment",
                         RandomSplit_check(ds, cs, r, pct, res),
                         [runs |-> r, percentage |-> pct, datasets |-> ds, classifiers |-> cs, result |-> res])
  ELSE ConstructorReturned("SimpleRandomSplitExperiment",
                           RandomSplit_init(ds, cs, c, r, pct, po, res),
                           NoForeignExperiment,
                           [runs |-> r, percentage |-> pct, datasets |-> ds, classifiers |-> cs, result |-> res])

NewRandomSplitExperiment ==
  /\ last.op = "start"
  /\ \E ds \in DatasetValues, cs \in ClassifierValues, c \in BOOLEAN, r \in RunsValues,
        pct \in PercentageValues, po \in BOOLEAN, res \in ResultValues :
       RandomSplitConstructor(ds, cs, c, r, pct, po, res)

\* An operation on the experiment ended in frame m.
Ended(op, m) ==
  /\ exp' = [exp EXCEPT !.jobject = m.jobject]
  /\ fx' = m.fx
  /\ nobj' = m.nobj
  /\ calls' = m.calls
  /\ last' = [op |-> op, raised |-> m.err, before |-> exp.jobject, args |-> <<>>]
  /\ UNCHANGED <<tvars, mvars>>

\* experiment.setup()
CallSetup ==
  /\ exp.kind # "none"
  /\ \E fail \in 0..SetupCalls : Ended("setup", Setup(exp, fx, nobj, fail))

\* experiment.run()
CallRun ==
  /\ exp.kind # "none"
  /\ \E fail \in 0..RunCalls : Ended("run", Run(exp, fx, nobj, fail))

---------------------------------------------------------------------------
(* The Tester. *)

\* An optional column name.
NoneName == [isNone |-> TRUE, name |-> ""]
Name(s) == [isNone |-> FALSE, name |-> s]

\* Instances: the attribute names of the dataset, in order; or None.
NoInstances == [isNone |-> TRUE, attributes |-> <<>>]
Instances(attrs) == [isNone |-> FALSE, attributes |-> attrs]

\* Inputs: the datasets attached and the column names assigned.
InstancesValues ==
  { Instances(<<"Key_Dataset", "Key_Run", "Key_Scheme", "Key_Fold",
                "Key_Scheme_options", "Key_Scheme_version_ID", "Percent_correct">>),
    Instances(<<"Key_Run", "Key_Dataset", "Key_Scheme", "Percent_correct">>) }
DatasetColumnsValues == { <<"Key_Dataset">>, <<"Key_Scheme", "Key_Dataset">> }
RunColumnValues == { Name("Key_Run"), Name("Run"), NoneName }
FoldColumnValues == { Name("Key_Fold"), NoneName }
ResultColumnsValues ==
  { <<"Key_Scheme", "Key_Scheme_options", "Key_Scheme_version_ID">>, <<"Key_Scheme">> }

\* Tester.__init__
Tester_init ==
  [ columns_determined |-> FALSE,
    dataset_columns |-> <<"Key_Dataset">>,
    run_column |-> Name("Key_Run"),
    fold_column |-> Name("Key_Fold"),
    result_columns |-> <<"Key_Scheme", "Key_Scheme_options", "Key_Scheme_version_ID">> ]

\* The foreign weka.experiment.Tester as new_instance returns it.
NewForeignTester ==
  [ datasetKeyColumns |-> Default,
    runColumn |-> Default,
    foldColumn |-> Default,
    resultsetKeyColumns |-> Default ]

\* Instances.get_attribute_by_name(name) is not None
HasAttribute(data, name) == \E i \in 1..Len(data.attributes) : data.attributes[i] = name

\* Instances.get_attribute_by_name(name).get_index(): the 0-based position of the
\* first attribute of that name.
AttributeIndex(data, name) ==
  (CHOOSE i \in 1..Len(data.attributes) :
     /\ data.attributes[i] = name
     /\ \A j \in 1..(i - 1) : data.attributes[j] # name) - 1

\* A Tester operation runs on a frame: the wrapper's flag, the foreign tester,
\* the calls issued, the exception raised, the column list being built and what
\* init_columns did ("not called" when the operation never called it).
TFrame(t, f) ==
  [ determined |-> t.columns_determined, tfx |-> f, calls |-> <<>>, err |-> NoError,
    cols |-> "", resolution |-> "not called" ]

\* A bridge call of a Tester operation: the fail-th call of the operation raises.
TCallOn(m, fail, target, method) ==
  IF m.err # NoError THEN m
  ELSE IF fail = Len(m.calls) + 1
       THEN [m EXCEPT !.calls = Append(@, Call(target, method)), !.err = BridgeError]
       ELSE [m EXCEPT !.calls = Append(@, Call(target, method))]

TCall(m, fail, target, method) == With(m, LAMBDA v : TCallOn(v, fail, target, method))

\* javabridge.call(self.jobject, setter, ..., value)
TSetOn(m, fail, method, field, value) ==
  IF TCallOn(m, fail, "tester", method).err # NoError
  THEN TCallOn(m, fail, "tester", method)
  ELSE [TCallOn(m, fail, "tester", method) EXCEPT !.tfx[field] = Set(value)]

TSet(m, fail, method, field, value) == With(m, LAMBDA v : TSetOn(v, fail, method, field, value))

\* AppendColumnOn with the "+ 1" of lines 536 and 569 left out.
AppendColumnOn_zero_based(m, fail, data, name, what) ==
  IF m.err # NoError THEN m
  ELSE IF TCallOn(m, fail, "instances", "attribute " \o name).err # NoError
  THEN TCallOn(m, fail, "instances", "attribute " \o name)
  ELSE IF ~HasAttribute(data, name)
  THEN [TCallOn(m, fail, "instances", "attribute " \o name)
          EXCEPT !.err = what \o " column not found: " \o name]
  ELSE [TCallOn(m, fail, "instances", "attribute " \o name)
          EXCEPT !.cols = (IF Len(@) > 0 THEN @ \o "," ELSE @)
                          \o ToString(AttributeIndex(data, name))]

\* One turn of the loops over dataset_columns and result_columns: look the name
\* up, raise when it is absent, append its 1-based index to cols otherwise.
AppendColumnOn(m, fail, data, name, what) ==
  IF m.err # NoError THEN m
  ELSE IF TCallOn(m, fail, "instances", "attribute " \o name).err # NoError
  THEN TCallOn(m, fail, "instances", "attribute " \o name)
  ELSE IF ~HasAttribute(data, name)
  THEN [TCallOn(m, fail, "instances", "attribute " \o name)
          EXCEPT !.err = what \o " column not found: " \o name]
  ELSE [TCallOn(m, fail, "instances", "attribute " \o name)
          EXCEPT !.cols = (IF Len(@) > 0 THEN @ \o "," ELSE @)
                          \o ToString(AttributeIndex(data, name) + 1)]

AppendColumn(m, fail, data, name, what) ==
  With(m, LAMBDA v : AppendColumnOn(v, fail, data, name, what))

RECURSIVE AppendColumns(_, _, _, _, _, _)
\* for name in names[i..]: ...
AppendColumns(m, fail, data, names, i, what) ==
  IF i > Len(names) THEN m
  ELSE AppendColumns(AppendColumn(m, fail, data, names[i], what), fail, data, names, i + 1, what)

\* cols = ""; the loop; the setter called with Range(ranges=cols).  The column
\* lists are lists here: a setter cannot store None (col_names[:] raises), so the
\* "is None" branches of lines 527 and 560 are not taken.
KeyColumns(m, fail, data, names, what, method, field) ==
  With(AppendColumns(With(m, LAMBDA v : IF v.err # NoError THEN v ELSE [v EXCEPT !.cols = ""]),
                     fail, data, names, 1, what),
       LAMBDA v : TSetOn(v, fail, method, field, v.cols))

\* The run column: required, passed on as the attribute's index.
RunColumnOn(m, fail, data, col) ==
  IF m.err # NoError THEN m
  ELSE IF col.isNone THEN [m EXCEPT !.err = "No run columnn set!"]
  ELSE IF TCallOn(m, fail, "instances", "attribute " \o col.name).err # NoError
  THEN TCallOn(m, fail, "instances", "attribute " \o col.name)
  ELSE IF ~HasAttribute(data, col.name)
  THEN [TCallOn(m, fail, "instances", "attribute " \o col.name)
          EXCEPT !.err = "Run column not found: " \o col.name]
  ELSE TSetOn(TCallOn(m, fail, "instances", "attribute " \o col.name),
              fail, "setRunColumn", "runColumn", AttributeIndex(data, col.name))

\* The fold column: optional, and -1 when the dataset has no such attribute.
FoldColumnOn(m, fail, data, col) ==
  IF m.err # NoError THEN m
  ELSE IF col.isNone THEN m
  ELSE IF TCallOn(m, fail, "instances", "attribute " \o col.name).err # NoError
  THEN TCallOn(m, fail, "instances", "attribute " \o col.name)
  ELSE TSetOn(TCallOn(m, fail, "instances", "attribute " \o col.name),
              fail, "setFoldColumn", "foldColumn",
              IF HasAttribute(data, col.name) THEN AttributeIndex(data, col.name) ELSE -1)

\* init_columns past its two early returns.
ResolveColumns(m, fail, t, data) ==
  LET m1 == KeyColumns(m, fail, data, t.dataset_columns, "Dataset",
                       "setDatasetKeyColumns", "datasetKeyColumns")
      m2 == With(m1, LAMBDA v : RunColumnOn(v, fail, data, t.run_column))
      m3 == With(m2, LAMBDA v : FoldColumnOn(v, fail, data, t.fold_column))
      m4 == KeyColumns(m3, fail, data, t.result_columns, "Result",
                       "setResultsetKeyColumns", "resultsetKeyColumns")
  IN With(m4, LAMBDA v : IF v.err # NoError
                         THEN [v EXCEPT !.resolution = "failed"]
                         ELSE [v EXCEPT !.determined = TRUE, !.resolution = "done"])

\* Tester.init_columns
init_columns_on(m, fail, t, data) ==
  IF m.determined THEN [m EXCEPT !.resolution = "cached"]
  ELSE IF TCallOn(m, fail, "tester", "getInstances").err # NoError
  THEN [TCallOn(m, fail, "tester", "getInstances") EXCEPT !.resolution = "failed"]
  ELSE IF data.isNone
  THEN [TCallOn(m, fail, "tester", "getInstances") EXCEPT !.resolution = "no instances"]
  ELSE ResolveColumns(TCallOn(m, fail, "tester", "getInstances"), fail, t, data)

init_columns(m, fail, t, data) == With(m, LAMBDA v : init_columns_on(v, fail, t, data))

\* Tester.header
header(m, fail, t, data) == TCall(init_columns(m, fail, t, data), fail, "tester", "header")

\* Tester.multi_resultset_full
multi_resultset_full(m, fail, t, data) == TCall(m, fail, "tester", "multiResultsetFull")

\* Tester.multi_resultset_ranking
multi_resultset_ranking(m, fail, t, data) == TCall(m, fail, "tester", "multiResultsetRanking")

\* Tester.multi_resultset_summary
multi_resultset_summary(m, fail, t, data) == TCall(m, fail, "tester", "multiResultsetSummary")

TInit ==
  /\ tester = Tester_init
  /\ tdata = NoInstances
  /\ tfx = NewForeignTester
  /\ tcalls = <<>>
  /\ tlast = [op |-> "Tester", raised |-> NoError, determined_before |-> FALSE,
              resolution |-> "not called"]

\* A Tester operation ended in frame m with the wrapper's fields as t.
TEnded(op, t, data, m) ==
  /\ tester' = [t EXCEPT !.columns_determined = m.determined]
  /\ tdata' = data
  /\ tfx' = m.tfx
  /\ tcalls' = m.calls
  /\ tlast' = [op |-> op, raised |-> m.err, determined_before |-> tester.columns_determined,
               resolution |-> m.resolution]
  /\ UNCHANGED <<evars, mvars>>

\* set_instances without line 469.
set_instances_noreset(m, fail) == TCall(m, fail, "tester", "setInstances")

\* tester.set_instances(data)
set_instances(m, fail) ==
  With(TCall(m, fail, "tester", "setInstances"),
       LAMBDA v : IF v.err # NoError THEN v ELSE [v EXCEPT !.determined = FALSE])

CallSetInstances ==
  \E data \in InstancesValues, fail \in 0..1 :
    LET m == set_instances(TFrame(tester, tfx), fail)
    IN TEnded("set_instances", tester, IF m.err = NoError THEN data ELSE tdata, m)

\* tester.set_dataset_columns(col_names)
CallSetDatasetColumns ==
  \E names \in DatasetColumnsValues :
    TEnded("set_dataset_columns", [tester EXCEPT !.dataset_columns = names], tdata,
           TFrame(tester, tfx))

\* tester.set_run_column(col_name)
CallSetRunColumn ==
  \E name \in RunColumnValues :
    TEnded("set_run_column", [tester EXCEPT !.run_column = name], tdata, TFrame(tester, tfx))

\* tester.set_fold_column(col_name)
CallSetFoldColumn ==
  \E name \in FoldColumnValues :
    TEnded("set_fold_column", [tester EXCEPT !.fold_column = name], tdata, TFrame(tester, tfx))

\* tester.set_result_columns(col_names)
CallSetResultColumns ==
  \E names \in ResultColumnsValues :
    TEnded("set_result_columns", [tester EXCEPT !.result_columns = names], tdata,
           TFrame(tester, tfx))

\* tester.init_columns(), called directly; any of the bridge calls it comes to
\* may be the one that raises.
CallInitColumns ==
  \E fail \in 0..Len(init_columns(TFrame(tester, tfx), 0, tester, tdata).calls) :
    TEnded("init_columns", tester, tdata, init_columns(TFrame(tester, tfx), fail, tester, tdata))

\* tester.header(comparison_column); any of the bridge calls it comes to may be
\* the one that raises.
CallHeader ==
  \E fail \in 0..Len(header(TFrame(tester, tfx), 0, tester, tdata).calls) :
    TEnded("header", tester, tdata, header(TFrame(tester, tfx), fail, tester, tdata))

\* tester.multi_resultset_full(base_resultset, comparison_column)
CallMultiResultsetFull ==
  \E fail \in 0..1 :
    TEnded("multi_resultset_full", tester, tdata,
           multi_resultset_full(TFrame(tester, tfx), fail, tester, tdata))

\* tester.multi_resultset_ranking(comparison_column)
CallMultiResultsetRanking ==
  \E fail \in 0..1 :
    TEnded("multi_resultset_ranking", tester, tdata,
           multi_resultset_ranking(TFrame(tester, tfx), fail, tester, tdata))

\* tester.multi_resultset_summary(comparison_column)
CallMultiResultsetSummary ==
  \E fail \in 0..1 :
    TEnded("multi_resultset_summary", tester, tdata,
           multi_resultset_summary(TFrame(tester, tfx), fail, tester, tdata))

---------------------------------------------------------------------------
(* The command-line entry point of weka/clusterers.py. *)

\* Command-line arguments are strings, held as sequences of characters.
startswith(s, prefix) == Len(s) >= Len(prefix) /\ SubSeq(s, 1, Len(prefix)) = prefix

\* The option letters main passes to getopt: "j:t:T:d:l:p:x:s:c:g:"
ShortOpts ==
  <<"j", ":", "t", ":", "T", ":", "d", ":", "l", ":", "p", ":", "x", ":", "s", ":",
    "c", ":", "g", ":">>

GetoptNotRecognized == "GetoptError: option not recognized"
GetoptRequiresArgument == "GetoptError: option requires argument"

\* getopt.short_has_arg(opt, shortopts)
short_has_arg(opt) ==
  LET hits == { i \in 1..Len(ShortOpts) : ShortOpts[i] = opt /\ opt # ":" }
      first == CHOOSE k \in hits : \A j \in hits : k <= j
  IN IF hits = {}
     THEN [err |-> GetoptNotRecognized, has_arg |-> FALSE]
     ELSE [err |-> NoError, has_arg |-> first < Len(ShortOpts) /\ ShortOpts[first + 1] = ":"]

RECURSIVE do_shorts(_, _, _)
\* getopt.do_shorts(opts, optstring, shortopts, args): the letters of one
\* argument; a letter that takes a value takes the rest of the argument, or
\* the next argument when nothing is left of this one.
do_shorts(opts, optstring, args) ==
  IF optstring = <<>> THEN [opts |-> opts, args |-> args, err |-> NoError]
  ELSE IF short_has_arg(Head(optstring)).err # NoError
  THEN [opts |-> opts, args |-> args, err |-> short_has_arg(Head(optstring)).err]
  ELSE IF ~short_has_arg(Head(optstring)).has_arg
  THEN do_shorts(Append(opts, << <<"-", Head(optstring)>>, <<>> >>), Tail(optstring), args)
  ELSE IF Tail(optstring) # <<>>
  THEN [opts |-> Append(opts, << <<"-", Head(optstring)>>, Tail(optstring) >>),
        args |-> args, err |-> NoError]
  ELSE IF args = <<>>
  THEN [opts |-> opts, args |-> args, err |-> GetoptRequiresArgument]
  ELSE [opts |-> Append(opts, << <<"-", Head(optstring)>>, Head(args) >>),
        args |-> Tail(args), err |-> NoError]

RECURSIVE getopt_loop(_, _)
\* The loop of getopt.getopt: options are read up to the first argument that
\* is not one, or up to "--"; there are no long options.
getopt_loop(opts, args) ==
  IF args = <<>> \/ ~startswith(Head(args), <<"-">>) \/ Head(args) = <<"-">>
  THEN [opts |-> opts, args |-> args, err |-> NoError]
  ELSE IF Head(args) = <<"-", "-">>
  THEN [opts |-> opts, args |-> Tail(args), err |-> NoError]
  ELSE IF startswith(Head(args), <<"-", "-">>)
  THEN [opts |-> opts, args |-> Tail(args), err |-> GetoptNotRecognized]
  ELSE With(do_shorts(opts, Tail(Head(args)), Tail(args)),
            LAMBDA r : IF r.err # NoError THEN r ELSE getopt_loop(r.opts, r.args))

\* getopt.getopt(args, "j:t:T:d:l:p:x:s:c:g:")
getopt(args) == getopt_loop(<<>>, args)

\* Errors main raises itself.
ErrNoClassname == "No clusterer classname provided!"
ErrNoTrain == "No train file provided ('-t ...')!"

\* jvm.start or jvm.stop raised.
JvmError == "jvm call raised"

\* os.pathsep
PathSep == ":"

RECURSIVE split(_, _, _)
\* s.split(os.pathsep): cur is the piece being read, s what is left to read.
split(s, cur, pieces) ==
  IF s = <<>> THEN Append(pieces, cur)
  ELSE IF Head(s) = PathSep THEN split(Tail(s), <<>>, Append(pieces, cur))
  ELSE split(Tail(s), Append(cur, Head(s)), pieces)

\* The options whose flag and value main appends to params.
ForwardedFlags ==
  { <<"-", "t">>, <<"-", "T">>, <<"-", "d">>, <<"-", "l">>, <<"-", "p">>, <<"-", "x">>,
    <<"-", "s">>, <<"-", "c">>, <<"-", "g">> }

\* CollectOption appending the -j option to params like the others.
CollectOption_forwardjars(acc, opt) ==
  IF opt[1] = <<"-", "j">>
  THEN [acc EXCEPT !.jars = split(opt[2], <<>>, <<>>), !.params = @ \o <<opt[1], opt[2]>>]
  ELSE IF opt[1] = <<"-", "t">>
  THEN [acc EXCEPT !.params = @ \o <<opt[1], opt[2]>>, !.train = Str(opt[2])]
  ELSE IF opt[1] \in ForwardedFlags THEN [acc EXCEPT !.params = @ \o <<opt[1], opt[2]>>]
  ELSE acc

\* One turn of the loop over optlist (lines 147-177).
CollectOption(acc, opt) ==
  IF opt[1] = <<"-", "j">> THEN [acc EXCEPT !.jars = split(opt[2], <<>>, <<>>)]
  ELSE IF opt[1] = <<"-", "t">>
  THEN [acc EXCEPT !.params = @ \o <<opt[1], opt[2]>>, !.train = Str(opt[2])]
  ELSE IF opt[1] \in ForwardedFlags THEN [acc EXCEPT !.params = @ \o <<opt[1], opt[2]>>]
  ELSE acc

RECURSIVE CollectOptions(_, _, _)
\* for opt in optlist[i..]: ...
CollectOptions(acc, optlist, i) ==
  IF i > Len(optlist) THEN acc
  ELSE CollectOptions(CollectOption(acc, optlist[i]), optlist, i + 1)

\* Arguments without the check of lines 180-181.
Arguments_nocheck(args) ==
  LET parsed == getopt(args)
      help == \E i \in 1..Len(parsed.opts) : parsed.opts[i][1] = <<"-", "h">>
      acc == CollectOptions([jars |-> <<>>, params |-> <<>>, train |-> NoneStr], parsed.opts, 1)
      locals == [optargs |-> parsed.args, jars |-> acc.jars, params |-> acc.params,
                 train |-> acc.train]
      nothing == [optargs |-> <<>>, jars |-> <<>>, params |-> <<>>, train |-> NoneStr]
  IN IF parsed.err # NoError THEN [err |-> parsed.err, usage |-> FALSE] @@ nothing
     ELSE IF Len(parsed.args) = 0 THEN [err |-> ErrNoClassname, usage |-> FALSE] @@ nothing
     ELSE IF help THEN [err |-> NoError, usage |-> TRUE] @@ nothing
     ELSE [err |-> NoError, usage |-> FALSE] @@ locals

\* main up to jvm.start (lines 136-181): what it raised, whether it returned
\* after printing the usage, and its local variables.
Arguments(args) ==
  LET parsed == getopt(args)
      help == \E i \in 1..Len(parsed.opts) : parsed.opts[i][1] = <<"-", "h">>
      acc == CollectOptions([jars |-> <<>>, params |-> <<>>, train |-> NoneStr], parsed.opts, 1)
      locals == [optargs |-> parsed.args, jars |-> acc.jars, params |-> acc.params,
                 train |-> acc.train]
      nothing == [optargs |-> <<>>, jars |-> <<>>, params |-> <<>>, train |-> NoneStr]
  IN IF parsed.err # NoError THEN [err |-> parsed.err, usage |-> FALSE] @@ nothing
     ELSE IF Len(parsed.args) = 0 THEN [err |-> ErrNoClassname, usage |-> FALSE] @@ nothing
     ELSE IF help THEN [err |-> NoError, usage |-> TRUE] @@ nothing
     ELSE IF acc.train = NoneStr THEN [err |-> ErrNoTrain, usage |-> FALSE] @@ locals
     ELSE [err |-> NoError, usage |-> FALSE] @@ locals

\* Inputs: the command lines main is called with.  An argument is a sequence
\* of characters; C is a clusterer classname, the other letters are file names
\* and values.
ArgsValues ==
  { <<>>,
    <<<<"-", "t">>, <<"a">>>>,
    <<<<"C">>>>,
    <<<<"-", "j">>, <<"x">>, <<"C">>>>,
    <<<<"-", "t">>, <<"a">>, <<"C">>>>,
    <<<<"-", "t", "a">>, <<"C">>>>,
    <<<<"-", "t">>, <<"a">>, <<"C">>, <<"-", "N">>, <<"2">>>>,
    <<<<"-", "j">>, <<"x", ":", "y">>, <<"-", "t">>, <<"a">>, <<"-", "T">>, <<"b">>, <<"C">>, <<"-", "N">>, <<"2">>>>,
    <<<<"-", "x">>, <<"3">>, <<"-", "t">>, <<"a">>, <<"-", "s">>, <<"1">>, <<"C">>>>,
    <<<<"-", "t">>, <<"a">>, <<"-", "t">>, <<"b">>, <<"C">>>>,
    <<<<"-", "d">>, <<"m">>, <<"-", "l">>, <<"n">>, <<"-", "p">>, <<"1">>, <<"-", "c">>, <<"2">>, <<"-", "g">>, <<"g">>, <<"-", "t">>, <<"a">>, <<"C">>>>,
    <<<<"-", "t">>>>,
    <<<<"-", "h">>>>,
    <<<<"-", "t">>, <<"a">>, <<"-", "h">>, <<"C">>>>,
    <<<<"-", "-", "l", "o", "n", "g">>, <<"C">>>>,
    <<<<"-", "-">>, <<"-", "t">>, <<"a">>, <<"C">>>>,
    <<<<"-", "t">>, <<"a">>, <<"-">>, <<"C">>>>,
    <<<<"-", "t">>, <<"-", "x">>, <<"C">>>>,
    <<<<"-", "t">>, <<"a">>, <<"C">>, <<"-", "t">>, <<"b">>>> }

\* A foreign operation main issued: jvm.start(jars), join_options(args),
\* Clusterer(classname), set_options(options), evaluate_clusterer(clusterer, args),
\* jvm.stop().
MainCall(op, arguments) == [op |-> op, args |-> arguments]

\* No Clusterer object.
NoClusterer == [made |-> FALSE, classname |-> <<>>, options |-> <<>>]

MInit ==
  /\ main = [pc |-> "idle", args |-> <<>>, optargs |-> <<>>, jars |-> <<>>, params |-> <<>>,
              train |-> NoneStr, clusterer |-> NoClusterer, ex |-> NoError,
              raised |-> NoError, printed |-> <<>>]
  /\ jvm = [state |-> "not started", starts |-> 0, stops |-> 0]
  /\ mcalls = <<>>

\* main(args) up to its parameter check (lines 131-181): it raises, returns
\* after printing the usage, or goes on to start the JVM.
CallMain ==
  \E args \in ArgsValues :
    /\ main.pc = "idle"
    /\ main' = With(Arguments(args), LAMBDA r :
                  [main EXCEPT !.pc = IF r.err # NoError THEN "raised"
                                      ELSE IF r.usage THEN "returned" ELSE "checked",
                               !.args = args, !.optargs = r.optargs, !.jars = r.jars,
                               !.params = r.params, !.train = r.train, !.raised = r.err,
                               !.printed = IF r.usage THEN <<"usage">> ELSE <<>>])
    /\ UNCHANGED <<jvm, mcalls, evars, tvars>>

\* jvm.start(jars) (line 183), outside the try statement.
JvmStart ==
  \E fail \in BOOLEAN :
    /\ main.pc = "checked"
    /\ mcalls' = Append(mcalls, MainCall("jvm.start", main.jars))
    /\ IF fail
       THEN main' = [main EXCEPT !.pc = "raised", !.raised = JvmError] /\ UNCHANGED jvm
       ELSE /\ main' = [main EXCEPT !.pc = "started"]
            /\ jvm' = [jvm EXCEPT !.state = "running", !.starts = @ + 1]
    /\ UNCHANGED <<evars, tvars>>

\* logger.debug("Commandline: " + utils.join_options(args)) (line 185): the
\* argument is evaluated by a foreign call, outside the try statement.
LogCommandline ==
  \E fail \in BOOLEAN :
    /\ main.pc = "started"
    /\ mcalls' = Append(mcalls, MainCall("join_options", main.args))
    /\ main' = IF fail THEN [main EXCEPT !.pc = "raised", !.raised = BridgeError]
               ELSE [main EXCEPT !.pc = "try"]
    /\ UNCHANGED <<jvm, evars, tvars>>

\* clusterer = Clusterer(classname=optargs[0]); optargs = optargs[1:] (lines 188-189)
NewClusterer ==
  \E fail \in BOOLEAN :
    /\ main.pc = "try"
    /\ mcalls' = Append(mcalls, MainCall("Clusterer", <<Head(main.optargs)>>))
    /\ main' = IF fail THEN [main EXCEPT !.pc = "except", !.ex = BridgeError]
               ELSE [main EXCEPT !.pc = "constructed",
                                 !.clusterer = [made |-> TRUE, classname |-> Head(main.optargs),
                                                options |-> <<>>],
                                 !.optargs = Tail(@)]
    /\ UNCHANGED <<jvm, evars, tvars>>

\* if len(optargs) > 0: clusterer.set_options(optargs) (lines 190-191)
SetOptions ==
  \E fail \in BOOLEAN :
    /\ main.pc = "constructed"
    /\ Len(main.optargs) > 0
    /\ mcalls' = Append(mcalls, MainCall("set_options", main.optargs))
    /\ main' = IF fail THEN [main EXCEPT !.pc = "except", !.ex = BridgeError]
               ELSE [main EXCEPT !.pc = "configured", !.clusterer.options = main.optargs]
    /\ UNCHANGED <<jvm, evars, tvars>>

\* print(ClusterEvaluation.evaluate_clusterer(clusterer, params)) (line 192)
Evaluate ==
  \E fail \in BOOLEAN :
    /\ \/ main.pc = "configured"
       \/ main.pc = "constructed" /\ Len(main.optargs) = 0
    /\ mcalls' = Append(mcalls, MainCall("evaluate_clusterer", main.params))
    /\ main' = IF fail THEN [main EXCEPT !.pc = "except", !.ex = BridgeError]
               ELSE [main EXCEPT !.pc = "finally", !.printed = Append(@, "report")]
    /\ UNCHANGED <<jvm, evars, tvars>>

\* except Exception, ex: print(ex) (lines 193-194)
PrintException ==
  /\ main.pc = "except"
  /\ main' = [main EXCEPT !.pc = "finally", !.printed = Append(@, main.ex)]
  /\ UNCHANGED <<jvm, mcalls, evars, tvars>>

\* finally: jvm.stop() (lines 195-196)
JvmStop ==
  \E fail \in BOOLEAN :
    /\ main.pc = "finally"
    /\ mcalls' = Append(mcalls, MainCall("jvm.stop", <<>>))
    /\ jvm' = [jvm EXCEPT !.state = "stopped", !.stops = @ + 1]
    /\ main' = IF fail THEN [main EXCEPT !.pc = "raised", !.raised = JvmError]
               ELSE [main EXCEPT !.pc = "returned"]
    /\ UNCHANGED <<evars, tvars>>

---------------------------------------------------------------------------
(* Specifications. *)

Init == EInit /\ TInit /\ MInit

\* Experiments: one constructor call, then setup() and run() in any order.
ExperimentNext ==
  \/ NewSimpleExperiment
  \/ NewCrossValidationExperiment
  \/ NewRandomSplitExperiment
  \/ CallSetup
  \/ CallRun

ExperimentSpec == Init /\ [][ExperimentNext]_vars

TesterNext ==
  \/ CallSetInstances
  \/ CallSetDatasetColumns
  \/ CallSetRunColumn
  \/ CallSetFoldColumn
  \/ CallSetResultColumns
  \/ CallInitColumns
  \/ CallHeader
  \/ CallMultiResultsetFull
  \/ CallMultiResultsetRanking
  \/ CallMultiResultsetSummary

\* A Tester: its operations in any order.
TesterSpec == Init /\ [][TesterNext]_vars

MainNext ==
  \/ CallMain
  \/ JvmStart
  \/ LogCommandline
  \/ NewClusterer
  \/ SetOptions
  \/ Evaluate
  \/ PrintException
  \/ JvmStop

\* One execution of the command-line entry point.
MainSpec == Init /\ [][MainNext]_vars

\* The end-to-end scenario: a valid cross-validation experiment is constructed,
\* set up and run, and no bridge call raises.
ValidCrossValidationResults ==
  { Str(<<"o","u","t",".","a","r","f","f">>),
    Str(<<"o","u","t",".","c","s","v">>),
    Str(<<"O","U","T",".","A","R","F","F">>) }

ScenarioConstruct ==
  /\ last.op = "start"
  /\ \E ds \in DatasetValues, cs \in ClassifierValues, c \in BOOLEAN,
        r \in RunsValues, f \in FoldsValues, res \in ValidCrossValidationResults :
       /\ Len(ds) > 0 /\ Len(cs) > 0 /\ r >= 1 /\ f >= 2
       /\ CrossValidationConstructor(ds, cs, c, r, f, res)

ScenarioSetup ==
  /\ last.op = "SimpleCrossValidationExperiment"
  /\ last.raised = NoError
  /\ Ended("setup", Setup(exp, fx, nobj, 0))

ScenarioRun ==
  /\ last.op = "setup"
  /\ last.raised = NoError
  /\ Ended("run", Run(exp, fx, nobj, 0))

ScenarioNext ==
  \/ ScenarioConstruct
  \/ ScenarioSetup
  \/ ScenarioRun

\* The script runs statement after statement: each step is taken once enabled.
ScenarioSpec == Init /\ [][ScenarioNext]_vars /\ WF_vars(ScenarioNext)

---------------------------------------------------------------------------
(* Claims about the experiments. *)

CrossValidationOp == "SimpleCrossValidationExperiment"
RandomSplitOp == "SimpleRandomSplitExperiment"

\* The arguments of the last constructor call violate a documented precondition.
ViolatingArguments ==
  /\ last.op \in {CrossValidationOp, RandomSplitOp}
  /\ \/ last.args.runs < 1
     \/ last.op = CrossValidationOp /\ last.args.folds < 2
     \/ last.op = RandomSplitOp /\ (last.args.percentage <= 0 \/ last.args.percentage >= 100)
     \/ last.args.datasets = <<>>
     \/ last.args.classifiers = <<>>
     \/ last.args.result = NoneStr

\* C1: a subclass constructor called with any violating argument (runs < 1,
\* folds < 2, percentage outside (0,100), no datasets, no classifiers, result None)
\* raises, and at that moment no bridge call was made, no foreign object exists
\* and there is no experiment holding a handle.
C1_ViolatingConstructorRaises ==
  ViolatingArguments =>
    /\ last.raised # NoError
    /\ calls = <<>>
    /\ nobj = 0
    /\ ~fx.exists
    /\ exp = NoExperiment
    /\ exp.jobject = None

\* C1 witness: cross-validation constructed with folds = 1 and everything else valid.
C1_Witness ==
  /\ last.op = CrossValidationOp
  /\ last.args.folds = 1
  /\ last.args.runs >= 1
  /\ last.args.datasets # <<>>
  /\ last.args.classifiers # <<>>
  /\ last.args.result # NoneStr
  /\ last.raised = ErrFolds

\* C2: a setup() call made while a handle is bound (by an earlier setup() or by
\* adoption) returns without a bridge call and leaves jobject as it was.
C2_SetupIdempotent ==
  (last.op = "setup" /\ last.before # None) =>
    /\ exp.jobject = last.before
    /\ calls = <<>>
    /\ last.raised = NoError

\* C2 witness: a second setup() after a first one that bound handle 1.
C2_Witness ==
  /\ last.op = "setup"
  /\ last.before = Handle(1)
  /\ exp.jobject = Handle(1)
  /\ nobj = 1

\* The result path's extension, compared without regard to case as the code does.
ArffResults == { Str(<<"o","u","t",".","a","r","f","f">>), Str(<<"O","U","T",".","A","R","F","F">>) }
CsvResults == { Str(<<"o","u","t",".","c","s","v">>) }
OtherResults == { Str(<<"o","u","t",".","t","x","t">>), Str(<<"a","r","f","f">>) }

\* setup() of a subclass experiment ran its body (no handle was bound before).
SubclassSetupRan ==
  /\ last.op = "setup"
  /\ last.before = None
  /\ exp.kind \in {CrossValidationOp, RandomSplitOp}

SetResultListenerCalled == \E i \in 1..Len(calls) : calls[i].method = "setResultListener"

\* C3: in setup(), unless a bridge call raises, a .arff result path attaches an
\* InstancesResultListener, a .csv path a CSVResultListener (each writing to that
\* path), and any other extension raises the unhandled-format error; with another
\* extension no listener is ever attached.
C3_ExtensionSelectsListener ==
  SubclassSetupRan =>
    /\ exp.result \in ArffResults \cup CsvResults \cup OtherResults
    /\ (exp.result \in ArffResults /\ last.raised # BridgeError) =>
         /\ last.raised = NoError
         /\ fx.resultListener = [class |-> "weka.experiment.InstancesResultListener",
                                 outputFile |-> exp.result]
    /\ (exp.result \in CsvResults /\ last.raised # BridgeError) =>
         /\ last.raised = NoError
         /\ fx.resultListener = [class |-> "weka.experiment.CSVResultListener",
                                 outputFile |-> exp.result]
    /\ exp.result \in OtherResults =>
         /\ last.raised \in {ErrUnhandledFormat, BridgeError}
         /\ fx.resultListener = Default
         /\ ~SetResultListenerCalled
    /\ (exp.result \in OtherResults /\ last.raised # BridgeError) =>
         last.raised = ErrUnhandledFormat

\* C3 witness: setup() with result "out.txt" raised the unhandled-format error
\* after wiring the datasets.
C3_Witness ==
  /\ SubclassSetupRan
  /\ exp.result = Str(<<"o","u","t",".","t","x","t">>)
  /\ last.raised = ErrUnhandledFormat
  /\ fx.datasets # Default
  /\ fx.resultListener = Default

\* The three phases run() calls on the handle h, in order.
RunPhases(h) == << Call(h, "initialize"), Call(h, "runExperiment"), Call(h, "postProcess") >>

\* C7: run() issues initialize, runExperiment, postProcess on the handle in that
\* order; it returns only after all three, and when a phase raises the exception
\* propagates and the phases after it are not called.
C7_RunPhasesInOrder ==
  last.op = "run" =>
    /\ Len(calls) \in 1..3
    /\ calls = SubSeq(RunPhases(exp.jobject), 1, Len(calls))
    /\ last.raised \in {NoError, BridgeError}
    /\ last.raised = NoError => (Len(calls) = 3 /\ fx.phase = "PostProcessed")
    /\ (last.raised = BridgeError /\ Len(calls) = 2) => fx.phase = "Initialized"
    /\ (last.raised = BridgeError /\ Len(calls) = 3) => fx.phase = "Ran"

\* C7 witness: initialize completed, runExperiment raised, postProcess was not called.
C7_Witness ==
  /\ last.op = "run"
  /\ last.raised = BridgeError
  /\ calls = << Call(exp.jobject, "initialize"), Call(exp.jobject, "runExperiment") >>
  /\ exp.jobject # None
  /\ fx.phase = "Initialized"

\* C8 (as claimed): run() on an experiment whose jobject is None issues none of
\* initialize, runExperiment, postProcess.
C8_RunOnUnconfiguredCallsNothing ==
  (last.op = "run" /\ exp.jobject = None) =>
    ~ \E i \in 1..Len(calls) : calls[i].method \in {"initialize", "runExperiment", "postProcess"}

\* C9: the scenario construct, setup(), run() of a valid cross-validation
\* experiment raises nothing and ends with all three phases done.
C9_ScenarioCompletes ==
  /\ [](last.raised = NoError)
  /\ <>(last.op = "run" /\ last.raised = NoError /\ fx.phase = "PostProcessed"
        /\ calls = RunPhases(exp.jobject))

\* C9 witness: the scenario's run() returned with the experiment post-processed.
C9_Witness ==
  /\ last.op = "run"
  /\ last.raised = NoError
  /\ exp.kind = CrossValidationOp
  /\ fx.phase = "PostProcessed"
  /\ fx.resultListener # Default

\* C10: configure_resultproducer of the base class raises "Not implemented!" and
\* returns no pair, and setup() of a base experiment without a handle raises (that
\* error, unless a bridge call raised before it) without setting a result producer.
C10_BaseHookNotImplemented ==
  exp.kind = "SimpleExperiment" =>
    /\ configure_resultproducer(exp).err = ErrNotImplemented
    /\ (last.op = "setup" /\ last.before = None) =>
         /\ last.raised \in {ErrNotImplemented, BridgeError}
         /\ fx.resultProducer = Default
         /\ fx.propertyPath = Default
         /\ ~ \E i \in 1..Len(calls) : calls[i].method = "setResultProducer"
         /\ (Len(calls) = 5 /\ calls[5] = Call(exp.jobject, "setRunUpper") /\ fx.runUpper # Default)
              => last.raised = ErrNotImplemented

\* C10 witness: setup() of a base experiment raised "Not implemented!" after the
\* basic options were set.
C10_Witness ==
  /\ exp.kind = "SimpleExperiment"
  /\ last.op = "setup"
  /\ last.before = None
  /\ last.raised = ErrNotImplemented
  /\ exp.jobject = Handle(1)
  /\ fx.runUpper = Set(exp.runs)

\* The last operation was a setup() that started without a handle and returned.
SuccessfulSetup == last.op = "setup" /\ last.before = None /\ last.raised = NoError

\* C14: after a successful setup() on an unconfigured experiment the foreign
\* experiment runs from 1 to runs, its dataset list holds one file per dataset
\* path in the configured order, and its classifier array has one element per
\* configured classifier in the configured order: the handle of a Classifier
\* object, the object parsed from an option string.
C14_SetupWiring ==
  SuccessfulSetup =>
    /\ fx.runLower = Set(1)
    /\ fx.runUpper = Set(exp.runs)
    /\ fx.datasets.class = "set"
    /\ Len(fx.datasets.value) = Len(exp.datasets)
    /\ \A i \in 1..Len(exp.datasets) :
         fx.datasets.value[i] = [class |-> "java.io.File", path |-> exp.datasets[i]]
    /\ fx.propertyArray.class = "set"
    /\ Len(fx.propertyArray.value) = Len(exp.classifiers)
    /\ \A i \in 1..Len(exp.classifiers) :
         fx.propertyArray.value[i] =
           IF exp.classifiers[i].type = "Classifier"
           THEN [class |-> "jobject", cmdline |-> exp.classifiers[i].value]
           ELSE [class |-> "from_commandline", cmdline |-> exp.classifiers[i].value]

\* Two datasets and a Classifier object followed by an option string, two runs.
C14_Witness ==
  /\ SuccessfulSetup
  /\ exp.runs = 2
  /\ exp.datasets = <<"b.arff", "a.arff">>
  /\ Len(exp.classifiers) = 2
  /\ fx.propertyArray.value[1].class = "jobject"
  /\ fx.propertyArray.value[2].class = "from_commandline"
  /\ fx.datasets.value[1].path = "b.arff"

\* The last operation was a setup() that started without a handle and raised
\* the not-implemented error of the hook or the unhandled-format error.
SetupRaised ==
  /\ last.op = "setup"
  /\ last.before = None
  /\ last.raised \in {ErrNotImplemented, ErrUnhandledFormat}

\* C15: a setup() that raised one of these errors has bound the handle of the
\* experiment it made, with no result listener attached; and while a handle is
\* bound it stays bound, a setup() call returns without a bridge call and
\* without changing the foreign experiment, and a run() call issues its calls
\* on that handle and leaves the result listener as it is.
C15_HandleBoundBeforeFailure ==
  /\ [](SetupRaised =>
         /\ exp.jobject # None
         /\ exp.jobject = Handle(nobj)
         /\ fx.exists
         /\ fx.runUpper = Set(exp.runs)
         /\ fx.resultListener = Default)
  /\ [][exp.jobject # None =>
          /\ exp'.jobject = exp.jobject
          /\ fx'.resultListener = fx.resultListener
          /\ (last'.op = "setup") => (calls' = <<>> /\ fx' = fx /\ last'.raised = NoError)
          /\ (last'.op = "run") =>
               /\ calls' # <<>>
               /\ \A i \in 1..Len(calls') : calls'[i].target = exp.jobject]_vars

\* A run() that went through all three phases on an experiment whose setup()
\* got as far as the datasets and raised on the result file's extension.
C15_Witness ==
  /\ last.op = "run"
  /\ last.raised = NoError
  /\ exp.jobject = Handle(1)
  /\ exp.result \in OtherResults
  /\ fx.datasets # Default
  /\ fx.resultListener = Default
  /\ fx.phase = "PostProcessed"

---------------------------------------------------------------------------
(* Claims about the Tester. *)

ColumnSetters == {"set_dataset_columns", "set_run_column", "set_fold_column", "set_result_columns"}
TesterQueries == {"header", "multi_resultset_full", "multi_resultset_ranking", "multi_resultset_summary"}
StatisticsMethods == {"header", "multiResultsetFull", "multiResultsetRanking", "multiResultsetSummary"}

StatisticsCalled == \E i \in 1..Len(tcalls) : tcalls[i].method \in StatisticsMethods

\* C4 (as claimed): a column setter called while columns_determined is true
\* leaves the flag false, so that the next query resolves the columns again.
C4_SetterInvalidatesFlag ==
  (tlast.op \in ColumnSetters /\ tlast.determined_before) => ~tester.columns_determined

\* The attached dataset has no attribute of some configured column name.
ConfiguredColumns ==
  { tester.dataset_columns[i] : i \in 1..Len(tester.dataset_columns) }
  \cup { tester.result_columns[i] : i \in 1..Len(tester.result_columns) }
  \cup (IF tester.run_column.isNone THEN {} ELSE {tester.run_column.name})
  \cup (IF tester.fold_column.isNone THEN {} ELSE {tester.fold_column.name})
MissingColumns == { c \in ConfiguredColumns : ~HasAttribute(tdata, c) }

\* C5 (as claimed): a query made while the attached dataset lacks a configured
\* column raises a lookup error naming a missing column and makes no foreign
\* statistics call (queries in which a bridge call itself raised are left out).
C5_QueryOnMissingColumnFails ==
  (tlast.op \in TesterQueries /\ ~tdata.isNone /\ MissingColumns # {}
     /\ tlast.raised # BridgeError) =>
    /\ \E c \in MissingColumns :
         tlast.raised \in { "Dataset column not found: " \o c, "Run column not found: " \o c,
                            "Fold column not found: " \o c, "Result column not found: " \o c }
    /\ ~StatisticsCalled

\* C6 (as claimed): every query calls init_columns before its foreign
\* statistics call.
C6_QueryResolvesFirst ==
  (tlast.op \in TesterQueries /\ StatisticsCalled) => tlast.resolution # "not called"

\* The operations that run init_columns: a direct call, and header().
ResolvingOps == {"init_columns", "header"}

\* The last operation ran an init_columns that resolved every column against
\* the attached dataset.
ColumnsResolved == tlast.op \in ResolvingOps /\ tlast.resolution = "done"

\* The position (counted from 1) of the first attribute called name.
Position(data, name) ==
  CHOOSE i \in 1..Len(data.attributes) :
    /\ data.attributes[i] = name
    /\ \A j \in 1..(i - 1) : data.attributes[j] # name

RECURSIVE PositionList(_, _, _)
\* The positions of names[i..], separated by commas.
PositionList(data, names, i) ==
  IF i > Len(names) THEN ""
  ELSE ToString(Position(data, names[i]))
       \o (IF i < Len(names) THEN "," ELSE "")
       \o PositionList(data, names, i + 1)

SetFoldColumnCalled == \E i \in 1..Len(tcalls) : tcalls[i].method = "setFoldColumn"

\* C11 (as claimed): after a resolution every configured column, the run and
\* the fold column included, is with the foreign tester as attribute position + 1.
C11_AllColumnsOneBased ==
  ColumnsResolved =>
    /\ tfx.datasetKeyColumns = Set(PositionList(tdata, tester.dataset_columns, 1))
    /\ tfx.runColumn = Set(Position(tdata, tester.run_column.name))
    /\ (~tester.fold_column.isNone /\ HasAttribute(tdata, tester.fold_column.name)) =>
         tfx.foldColumn = Set(Position(tdata, tester.fold_column.name))
    /\ tfx.resultsetKeyColumns = Set(PositionList(tdata, tester.result_columns, 1))

\* C11 (amended): after a resolution the dataset columns and the result columns
\* are with the foreign tester as comma-separated lists of attribute position
\* + 1 in the order configured; the run column is passed as the attribute's
\* 0-based index; the fold column is passed as the attribute's 0-based index,
\* as -1 when the dataset has no such attribute, and not at all when no fold
\* column is configured.
C11_ColumnIndices ==
  ColumnsResolved =>
    /\ tfx.datasetKeyColumns = Set(PositionList(tdata, tester.dataset_columns, 1))
    /\ tfx.runColumn = Set(Position(tdata, tester.run_column.name) - 1)
    /\ IF tester.fold_column.isNone THEN ~SetFoldColumnCalled
       ELSE /\ SetFoldColumnCalled
            /\ tfx.foldColumn =
                 Set(IF HasAttribute(tdata, tester.fold_column.name)
                     THEN Position(tdata, tester.fold_column.name) - 1 ELSE -1)
    /\ tfx.resultsetKeyColumns = Set(PositionList(tdata, tester.result_columns, 1))

\* Two dataset columns resolved out of order against a dataset with a fold column.
C11_Witness ==
  /\ ColumnsResolved
  /\ tester.dataset_columns = <<"Key_Scheme", "Key_Dataset">>
  /\ tfx.datasetKeyColumns = Set("3,1")
  /\ tfx.runColumn = Set(1)
  /\ tfx.foldColumn = Set(3)
  /\ tfx.resultsetKeyColumns = Set("3,5,6")

---------------------------------------------------------------------------
(* Claims about the command-line entry point. *)

MainEnded == main.pc \in {"returned", "raised"}

ClustererOps == {"Clusterer", "set_options", "evaluate_clusterer"}

\* The positions in mcalls of the calls of the given operations.
CallsOf(ops) == { i \in 1..Len(mcalls) : mcalls[i].op \in ops }

\* C12 (as claimed): an execution in which jvm.start() was called and returned
\* has called jvm.stop() exactly once when main ends; every clusterer
\* operation lies after jvm.start and before jvm.stop; and an exception of the
\* clusterer's construction, option setting or evaluation is printed and is
\* not what main raises.
C12_JvmBracket ==
  /\ jvm.stops <= 1
  /\ (MainEnded /\ jvm.starts > 0) => jvm.stops = 1
  /\ \A i \in CallsOf(ClustererOps) :
       /\ \E j \in CallsOf({"jvm.start"}) : j < i
       /\ \A j \in CallsOf({"jvm.stop"}) : i < j
  /\ (MainEnded /\ main.ex # NoError) =>
       /\ \E k \in 1..Len(main.printed) : main.printed[k] = main.ex
       /\ main.raised # main.ex

\* The methods init_columns calls on the foreign tester and on the dataset.
ResolutionCalled ==
  \E i \in 1..Len(tcalls) :
    \/ tcalls[i].target = "instances"
    \/ tcalls[i].method \in {"getInstances", "setDatasetKeyColumns", "setRunColumn",
                             "setFoldColumn", "setResultsetKeyColumns"}

\* C16: columns_determined is true only with a dataset attached; a
\* set_instances that returned leaves it false; a resolution that failed or
\* found no instances leaves it false; an init_columns entered while it is true
\* makes no attribute lookup and no foreign call; and it turns from false to
\* true only in a step in which init_columns resolved all columns, so only
\* after the most recent set_instances.
C16_ColumnsDeterminedFlag ==
  /\ [](/\ tester.columns_determined => ~tdata.isNone
        /\ (tlast.op = "set_instances" /\ tlast.raised = NoError) => ~tester.columns_determined
        /\ tlast.resolution \in {"failed", "no instances"} => ~tester.columns_determined
        /\ tlast.resolution = "done" =>
             (tester.columns_determined /\ ~tlast.determined_before /\ ResolutionCalled)
        /\ tlast.resolution # "not called" => tlast.op \in ResolvingOps
        /\ (tlast.op \in ResolvingOps /\ tlast.determined_before) =>
             (tlast.resolution = "cached" /\ ~ResolutionCalled /\ tester.columns_determined))
  /\ [][(~tester.columns_determined /\ tester'.columns_determined) =>
          (tlast'.op \in ResolvingOps /\ tlast'.resolution = "done" /\ tdata' = tdata)]_vars

\* A header() called with the flag true: init_columns returned at once and the
\* only bridge call is header's own.
C16_Witness ==
  /\ tlast.op = "header"
  /\ tlast.determined_before
  /\ tlast.resolution = "cached"
  /\ tester.columns_determined
  /\ tcalls = <<Call("tester", "header")>>

\* The command line as getopt splits it.
CommandLine == getopt(main.args)
HasClassname == Len(CommandLine.args) > 0
HasTrainOption == \E i \in 1..Len(CommandLine.opts) : CommandLine.opts[i][1] = <<"-", "t">>

\* C13: a call of main whose command line has no positional classname or no
\* -t option raised (getopt's error when the options do not parse; else
\* ErrNoClassname without a classname; else ErrNoTrain) with jvm.start never
\* called and no clusterer constructed.
C13_RequiredArguments ==
  (main.pc # "idle" /\ (CommandLine.err # NoError \/ ~HasClassname \/ ~HasTrainOption)) =>
    /\ main.pc = "raised"
    /\ main.raised = IF CommandLine.err # NoError THEN CommandLine.err
                     ELSE IF ~HasClassname THEN ErrNoClassname ELSE ErrNoTrain
    /\ jvm.state = "not started" /\ jvm.starts = 0
    /\ mcalls = <<>>
    /\ ~main.clusterer.made

\* A classpath and a classname but no -t: main raised before jvm.start.
C13_Witness ==
  /\ main.pc = "raised"
  /\ main.raised = ErrNoTrain
  /\ main.args = <<<<"-", "j">>, <<"x">>, <<"C">>>>
  /\ main.jars = <<<<"x">>>>
  /\ jvm.starts = 0
  /\ mcalls = <<>>

RECURSIVE OptionPairs(_, _)
\* The flags and values of the options opts[i..] other than -j, in order.
OptionPairs(opts, i) ==
  IF i > Len(opts) THEN <<>>
  ELSE (IF opts[i][1] = <<"-", "j">> THEN <<>> ELSE <<opts[i][1], opts[i][2]>>)
       \o OptionPairs(opts, i + 1)

\* The value of the last -j option of the command line, or nothing.
ClasspathOption ==
  LET js == { i \in 1..Len(CommandLine.opts) : CommandLine.opts[i][1] = <<"-", "j">> }
  IN IF js = {} THEN <<>>
     ELSE <<CommandLine.opts[CHOOSE i \in js : \A k \in js : k <= i][2]>>

\* C17: evaluate_clusterer is handed exactly the flag/value pairs of the
\* options other than -j in command-line order; the Clusterer is made from the
\* first positional argument; set_options is called with the remaining
\* positional arguments, before the evaluation, exactly when there are some;
\* and the -j value goes, split at the path separator, to jvm.start only.
C17_ForwardedArguments ==
  /\ \A i \in CallsOf({"evaluate_clusterer"}) :
       /\ mcalls[i].args = OptionPairs(CommandLine.opts, 1)
       /\ \A k \in 1..Len(mcalls[i].args) :
            (k % 2 = 1) => mcalls[i].args[k] \in ForwardedFlags
       /\ IF Tail(CommandLine.args) # <<>>
          THEN \E j \in CallsOf({"set_options"}) : j < i
          ELSE CallsOf({"set_options"}) = {}
  /\ \A i \in CallsOf({"Clusterer"}) : mcalls[i].args = <<Head(CommandLine.args)>>
  /\ \A i \in CallsOf({"set_options"}) :
       mcalls[i].args = Tail(CommandLine.args) /\ mcalls[i].args # <<>>
  /\ \A i \in CallsOf({"jvm.start"}) :
       mcalls[i].args = IF ClasspathOption = <<>> THEN <<>>
                        ELSE split(ClasspathOption[1], <<>>, <<>>)

\* -j x:y -t a -T b C -N 2: the evaluation got -t a -T b, the clusterer -N 2.
C17_Witness ==
  /\ main.pc = "returned"
  /\ main.printed = <<"report">>
  /\ Len(mcalls) = 6
  /\ mcalls[1] = MainCall("jvm.start", <<<<"x">>, <<"y">>>>)
  /\ mcalls[3] = MainCall("Clusterer", <<<<"C">>>>)
  /\ mcalls[4] = MainCall("set_options", <<<<"-", "N">>, <<"2">>>>)
  /\ mcalls[5] = MainCall("evaluate_clusterer",
                          <<<<"-", "t">>, <<"a">>, <<"-", "T">>, <<"b">>>>)

====
